---- MODULE Spec2Model ----
(***************************************************************************)
(* A model of src/vrt6.py: the HandSafetySystem class.                     *)
(*                                                                         *)
(*   calculate_logic  the proximity classifier (a pure function)           *)
(*   process_frame    the hand segmenter, over the contours OpenCV finds   *)
(*   run              the capture / classify / display / key loop          *)
(*                                                                         *)
(* Numbers.  Coordinates are Python integers (unbounded).  A distance is   *)
(* math.sqrt(n) of a non-negative integer n below 2^53, or one of the      *)
(* integer literals 0, 10, 150, 99999.  On that range the correctly        *)
(* rounded square root is strictly monotone and exact on perfect squares,  *)
(* so every comparison the code makes between two distances has the same   *)
(* outcome as the comparison of their squares.  The model therefore        *)
(* carries a distance as its square.  A square can exceed TLC's 32-bit     *)
(* integers (99999^2 does), so squares are two-limb numbers <<hi, lo>>     *)
(* that stand for hi * 10^6 + lo with 0 <= lo < 10^6.                      *)
(*                                                                         *)
(* In run() the hull is OpenCV's int32 array.  The frames of the loop are  *)
(* at most 640 pixels wide, so every difference squared there fits 32 bits *)
(* and the int32 and the Python results agree.  The calls of               *)
(* calculate_logic with far vertices are calls with Python integers.       *)
(***************************************************************************)
EXTENDS Integers, Sequences, FiniteSets, TLC

\* Python's None.  Every value the code tests against None (a hull, the zone
\* rectangle) is a non-empty tuple when present: cv2.convexHull returns no
\* empty array, and no input of the model is an empty hull.
None == <<>>

\* ---------------------------------------------------------------- bounds
MaxHullLen == 3
MaxContours == 2
MaxFrames == 3

\* ------------------------------------------------------------- constants
STATE_SAFE == 0
STATE_WARNING == 1
STATE_DANGER == 2
INITIAL_MIN_DIST == 99999
DANGER_LIMIT == 10
WARNING_LIMIT == 150
MIN_AREA == 3000
ZONE_SIZE == 200
QUIT_KEY == 113

\* ------------------------------------------------------------ arithmetic
\* Python's built-in min and max on two integers.
PyMin(a, b) == IF b < a THEN b ELSE a
PyMax(a, b) == IF b > a THEN b ELSE a

Abs(n) == IF n < 0 THEN 0 - n ELSE n

\* n ** 2 for |n| < 10^6, as a two-limb number.
Sq(n) ==
  LET m == Abs(n)
      a == m \div 1000
      b == m % 1000
      mid == 2 * a * b * 1000 + b * b
  IN  <<a * a + mid \div 1000000, mid % 1000000>>

\* Sum of two two-limb numbers.
BigAdd(x, y) ==
  LET lo == x[2] + y[2]
  IN  <<x[1] + y[1] + lo \div 1000000, lo % 1000000>>

BigLt(x, y) == x[1] < y[1] \/ (x[1] = y[1] /\ x[2] < y[2])
BigLe(x, y) == ~BigLt(y, x)

\* math.sqrt((px - cl_x) ** 2 + (py - cl_y) ** 2), carried as its square.
EuclidDist(px, py, cl_x, cl_y) == BigAdd(Sq(px - cl_x), Sq(py - cl_y))

\* ------------------------------------------------------- calculate_logic
\* dist < min_dist : the update test of the scan.
Closer(dist, min_dist) == BigLt(dist, min_dist)

\* The threshold ladder on min_dist.
ThresholdsExclusive(min_dist) ==
  IF BigLt(min_dist, Sq(DANGER_LIMIT)) THEN STATE_DANGER
  ELSE IF BigLt(min_dist, Sq(WARNING_LIMIT)) THEN STATE_WARNING
  ELSE STATE_SAFE
Thresholds(min_dist) ==
  IF BigLe(min_dist, Sq(DANGER_LIMIT)) THEN STATE_DANGER
  ELSE IF BigLt(min_dist, Sq(WARNING_LIMIT)) THEN STATE_WARNING
  ELSE STATE_SAFE

\* The for loop over the hull, from element i on.  Each element of the hull
\* is a one-element sequence holding the point (px, py) = point[0].
RECURSIVE ScanHull(_, _, _, _)
ScanHull(hull, rect, i, best) ==
  IF i > Len(hull) THEN best
  ELSE
    LET point == hull[i]
        px == point[1][1]
        py == point[1][2]
        rx == rect[1]
        ry == rect[2]
        rw == rect[3]
        rh == rect[4]
        cl_x == PyMax(rx, PyMin(px, rx + rw))
        cl_y == PyMax(ry, PyMin(py, ry + rh))
        dist == EuclidDist(px, py, cl_x, cl_y)
    IN  ScanHull(hull, rect, i + 1,
          IF Closer(dist, best.min_dist)
          THEN [min_dist |-> dist,
                closest_hand_point |-> <<px, py>>,
                closest_box_point |-> <<cl_x, cl_y>>]
          ELSE best)

\* The result for an absent hull.
NoHullResultWarning ==
  [state |-> STATE_WARNING, dist |-> Sq(0), hand_pt |-> <<0, 0>>, box_pt |-> <<0, 0>>]
NoHullResult ==
  [state |-> STATE_SAFE, dist |-> Sq(0), hand_pt |-> <<0, 0>>, box_pt |-> <<0, 0>>]

calculate_logic(hull, rect) ==
  IF hull = None THEN NoHullResult
  ELSE
    LET best == ScanHull(hull, rect, 1,
                  [min_dist |-> Sq(INITIAL_MIN_DIST),
                   closest_hand_point |-> <<0, 0>>,
                   closest_box_point |-> <<0, 0>>])
    IN  [state |-> Thresholds(best.min_dist),
         dist |-> best.min_dist,
         hand_pt |-> best.closest_hand_point,
         box_pt |-> best.closest_box_point]

\* --------------------------------------------------------- process_frame
\* A frame is [w, h, contours]: its width and height and the contours that
\* cv2.findContours yields from the cleaned skin mask, in OpenCV's order.
\* Blur, colour conversion, thresholding and morphology are OpenCV's and are
\* not modelled.  A contour is [area2, hull]: twice the value of
\* cv2.contourArea (which is a multiple of 0.5) and the value of
\* cv2.convexHull for that contour.

\* cv2.contourArea(max_contour) > 3000
AreaFilterInclusive(area2) == area2 >= 2 * MIN_AREA
AreaFilter(area2) == area2 > 2 * MIN_AREA

\* max(contours, key=cv2.contourArea): the first contour of the largest area.
RECURSIVE MaxContour(_, _, _)
MaxContour(contours, i, best) ==
  IF i > Len(contours) THEN best
  ELSE MaxContour(contours, i + 1,
         IF contours[i].area2 > best.area2 THEN contours[i] ELSE best)

process_frame(fr) ==
  IF Len(fr.contours) > 0
  THEN LET max_contour == MaxContour(fr.contours, 2, fr.contours[1])
       IN  IF AreaFilter(max_contour.area2) THEN max_contour.hull ELSE None
  ELSE None

\* ------------------------------------------------------------------- run
\* (int(w * 0.65), int(h * 0.25), 200, 200).  0.65 and 0.25 are doubles; for
\* 0 <= w, h < 200000 the truncated products equal floor(65w/100) and
\* floor(25h/100).
ZoneFromFrame(fw, fh) == <<(fw * 65) \div 100, (fh * 25) \div 100, ZONE_SIZE, ZONE_SIZE>>

\* if self.danger_zone_rect is None: self.danger_zone_rect = (...)
DangerZoneAlwaysRecomputed(rect, fw, fh) == ZoneFromFrame(fw, fh)
DangerZoneAfter(rect, fw, fh) == IF rect = None THEN ZoneFromFrame(fw, fh) ELSE rect

\* cv2.waitKey(1) & 0xFF
MaskKey(raw) == raw % 256

\* key == ord('q')
IsQuitOrEsc(k) == k = QUIT_KEY \/ k = 27
IsQuit(k) == k = QUIT_KEY

\* ------------------------------------------------------------ input sets
Pt(x, y) == << <<x, y>> >>

\* Frame sizes <<w, h>> a capture device delivers.
FrameSizes == {<<640, 480>>, <<320, 240>>}

\* Convex hulls (triangles) of hand-sized regions.
CandidateHulls ==
  { <<Pt(10, 10), Pt(10, 150), Pt(58, 80)>>,
    <<Pt(10, 10), Pt(10, 150), Pt(59, 80)>>,
    <<Pt(100, 100), Pt(100, 220), Pt(198, 150)>>,
    <<Pt(150, 100), Pt(150, 200), Pt(250, 150)>>,
    <<Pt(300, 100), Pt(300, 220), Pt(406, 150)>>,
    <<Pt(300, 100), Pt(300, 220), Pt(405, 150)>> }

\* Twice the contour areas OpenCV reports, around the threshold.
Areas2 == {0, 2 * MIN_AREA - 1, 2 * MIN_AREA, 2 * MIN_AREA + 1}

InFrame(hl, fw, fh) ==
  \A i \in 1..Len(hl) :
    /\ 0 <= hl[i][1][1] /\ hl[i][1][1] < fw
    /\ 0 <= hl[i][1][2] /\ hl[i][1][2] < fh

\* Twice the area of a triangle hull (shoelace formula).
TriArea2(hl) ==
  Abs((hl[2][1][1] - hl[1][1][1]) * (hl[3][1][2] - hl[1][1][2])
      - (hl[3][1][1] - hl[1][1][1]) * (hl[2][1][2] - hl[1][1][2]))

\* The contours a frame of that size can hold: the hull lies in the frame
\* and encloses the contour, so it is at least as large.
ContoursIn(fw, fh) ==
  { c \in [area2 : Areas2, hull : CandidateHulls] :
      InFrame(c.hull, fw, fh) /\ TriArea2(c.hull) >= c.area2 }

SeqsUpTo(S, n) == UNION { [1..k -> S] : k \in 0..n }

FramesWith(n) ==
  UNION { { [w |-> sz[1], h |-> sz[2], contours |-> cs] :
              cs \in SeqsUpTo(ContoursIn(sz[1], sz[2]), n) } : sz \in FrameSizes }

\* Values cv2.waitKey can return: -1 (no key), a key code, and a key code
\* with modifier bits above the low byte.
RawKeys == {-1, 113, 81, 27, 1048689}

\* ----------------------------------------------------------------- state
VARIABLES
  pc,                \* position in run(): read, classify, show, waitkey, release, destroy, done
  cap_released,      \* number of self.cap.release() calls made
  windows_destroyed, \* number of cv2.destroyAllWindows() calls made
  danger_zone_rect,  \* self.danger_zone_rect
  frame, h, w,       \* locals of run(): the frame read and its shape
  hull, state, dist, hand_pt, box_pt, key,   \* locals of run()
  shown,             \* what the last cv2.imshow displayed
  n_read,            \* frames read successfully
  n_classified,      \* calls of calculate_logic made by run()
  n_shown,           \* calls of cv2.imshow made by run()
  first_dims,        \* history: <<w, h>> of the first frame read successfully
  snap,              \* history: hull and result of some earlier iteration
  l_pc, l_hull, l_rect, l_vec, l_out, l_outT,   \* one call of calculate_logic and its translate
  s_pc, s_frame, s_hull                        \* one call of process_frame

runVars ==
  <<pc, cap_released, windows_destroyed, danger_zone_rect, frame, h, w,
    hull, state, dist, hand_pt, box_pt, key, shown,
    n_read, n_classified, n_shown, first_dims, snap>>
logicVars == <<l_pc, l_hull, l_rect, l_vec, l_out, l_outT>>
segVars == <<s_pc, s_frame, s_hull>>
vars == <<runVars, logicVars, segVars>>

\* After HandSafetySystem(): the camera is open, no zone yet; run() has
\* assigned none of its locals.
RunInit ==
  /\ pc = "read"
  /\ cap_released = 0
  /\ windows_destroyed = 0
  /\ danger_zone_rect = None
  /\ frame = None /\ h = None /\ w = None
  /\ hull = None /\ state = None /\ dist = None
  /\ hand_pt = None /\ box_pt = None /\ key = None
  /\ shown = None
  /\ n_read = 0 /\ n_classified = 0 /\ n_shown = 0
  /\ first_dims = None
  /\ snap = None

LogicIdle ==
  /\ l_pc = "idle" /\ l_hull = None /\ l_rect = None
  /\ l_vec = None /\ l_out = None /\ l_outT = None

SegIdle == s_pc = "idle" /\ s_frame = None /\ s_hull = None

\* ------------------------------------------------------- actions of run()
\* The frames the loop is fed: at most one contour each (process_frame's
\* choice among several contours is exercised by SegSpec).
LoopFrames == FramesWith(1)

\* ret, frame = self.cap.read() with ret true.  The stream is cut after
\* MaxFrames frames.
ReadOk ==
  /\ pc = "read"
  /\ n_read < MaxFrames
  /\ \E f \in LoopFrames : frame' = f
  /\ n_read' = n_read + 1
  /\ first_dims' = IF first_dims = None THEN <<frame'.w, frame'.h>> ELSE first_dims
  /\ pc' = "classify"
  /\ UNCHANGED <<cap_released, windows_destroyed, danger_zone_rect, h, w, hull,
                 state, dist, hand_pt, box_pt, key, shown, n_classified, n_shown, snap>>

\* ret, frame = self.cap.read() with ret false: break.
ReadFail ==
  /\ pc = "read"
  /\ frame' = None
  /\ pc' = "release"
  /\ UNCHANGED <<cap_released, windows_destroyed, danger_zone_rect, h, w, hull,
                 state, dist, hand_pt, box_pt, key, shown, n_read, n_classified,
                 n_shown, first_dims, snap>>

\* state, dist, hand_pt, box_pt = self.calculate_logic(hull, self.danger_zone_rect)
ClassifySticky ==
  LET r == calculate_logic(hull', danger_zone_rect')
  IN  /\ state' = IF n_classified = 0 \/ r.state > state THEN r.state ELSE state
      /\ dist' = r.dist
      /\ hand_pt' = r.hand_pt
      /\ box_pt' = r.box_pt
ClassifyCall ==
  LET r == calculate_logic(hull', danger_zone_rect')
  IN  /\ state' = r.state
      /\ dist' = r.dist
      /\ hand_pt' = r.hand_pt
      /\ box_pt' = r.box_pt

\* From the flip to the call of calculate_logic.  The frame's contours are
\* those of the mirrored image.  snap may record this iteration.
Classify ==
  /\ pc = "classify"
  /\ h' = frame.h /\ w' = frame.w
  /\ danger_zone_rect' = DangerZoneAfter(danger_zone_rect, w', h')
  /\ hull' = process_frame(frame)
  /\ ClassifyCall
  /\ n_classified' = n_classified + 1
  /\ snap' \in {snap, <<[at |-> n_classified', hull |-> hull', state |-> state',
                         dist |-> dist', hand_pt |-> hand_pt', box_pt |-> box_pt']>>}
  /\ pc' = "show"
  /\ UNCHANGED <<cap_released, windows_destroyed, frame, key, shown, n_read,
                 n_shown, first_dims>>

\* The drawing and cv2.imshow: the zone in the state's colour, the alert of
\* the state, the hull outline, and the interaction line with its distance
\* label when a hull is present and the state is not SAFE.
Show ==
  /\ pc = "show"
  /\ shown' = [zone |-> danger_zone_rect, alert |-> state,
               outline |-> hull,
               line |-> IF hull # None /\ state # STATE_SAFE
                        THEN <<hand_pt, box_pt>> ELSE None]
  /\ n_shown' = n_shown + 1
  /\ pc' = "waitkey"
  /\ UNCHANGED <<cap_released, windows_destroyed, danger_zone_rect, frame, h, w,
                 hull, state, dist, hand_pt, box_pt, key, n_read, n_classified,
                 first_dims, snap>>

\* key = cv2.waitKey(1) & 0xFF ; if key == ord('q'): break
WaitKey ==
  /\ pc = "waitkey"
  /\ \E raw \in RawKeys : key' = MaskKey(raw)
  /\ pc' = IF IsQuit(key') THEN "release" ELSE "read"
  /\ UNCHANGED <<cap_released, windows_destroyed, danger_zone_rect, frame, h, w,
                 hull, state, dist, hand_pt, box_pt, shown, n_read, n_classified,
                 n_shown, first_dims, snap>>

\* self.cap.release()
ReleaseSkipped ==
  /\ pc = "release"
  /\ pc' = "destroy"
  /\ UNCHANGED <<cap_released, windows_destroyed, danger_zone_rect, frame, h, w,
                 hull, state, dist, hand_pt, box_pt, key, shown, n_read,
                 n_classified, n_shown, first_dims, snap>>
Release ==
  /\ pc = "release"
  /\ cap_released' = cap_released + 1
  /\ pc' = "destroy"
  /\ UNCHANGED <<windows_destroyed, danger_zone_rect, frame, h, w,
                 hull, state, dist, hand_pt, box_pt, key, shown, n_read,
                 n_classified, n_shown, first_dims, snap>>

\* cv2.destroyAllWindows()
DestroyWindows ==
  /\ pc = "destroy"
  /\ windows_destroyed' = windows_destroyed + 1
  /\ pc' = "done"
  /\ UNCHANGED <<cap_released, danger_zone_rect, frame, h, w,
                 hull, state, dist, hand_pt, box_pt, key, shown, n_read,
                 n_classified, n_shown, first_dims, snap>>

Init == RunInit /\ LogicIdle /\ SegIdle

Next ==
  \/ (ReadOk /\ UNCHANGED <<logicVars, segVars>>)
  \/ (ReadFail /\ UNCHANGED <<logicVars, segVars>>)
  \/ (Classify /\ UNCHANGED <<logicVars, segVars>>)
  \/ (Show /\ UNCHANGED <<logicVars, segVars>>)
  \/ (WaitKey /\ UNCHANGED <<logicVars, segVars>>)
  \/ (Release /\ UNCHANGED <<logicVars, segVars>>)
  \/ (DestroyWindows /\ UNCHANGED <<logicVars, segVars>>)

Spec == Init /\ [][Next]_vars

\* ------------------------------------- calculate_logic as a pure function
\* Zone rectangles (x, y, w, h).
LogicZones == {<<100, 100, 200, 200>>, <<0, 0, 200, 200>>, <<90, 60, 30, 300>>}

\* Hull vertices: inside, on and around the 10 and 150 thresholds of the
\* zones above, and two beyond the initial min_dist of 99999.
LogicPoints ==
  { <<50, 100>>, <<102, 102>>, <<90, 100>>, <<94, 92>>, <<90, 99>>,
    <<-50, 100>>, <<-49, 100>>, <<400, 400>>,
    <<100300, 100>>, <<100300, 200>> }

LogicHulls ==
  UNION { [1..k -> {Pt(p[1], p[2]) : p \in LogicPoints}] : k \in 1..MaxHullLen }

\* Translation vectors.
Vectors == {<<7, -3>>, <<-100, -100>>}

TranslateHull(hl, v) ==
  IF hl = None THEN None
  ELSE [i \in 1..Len(hl) |-> Pt(hl[i][1][1] + v[1], hl[i][1][2] + v[2])]

TranslateRect(rect, v) == <<rect[1] + v[1], rect[2] + v[2], rect[3], rect[4]>>

LogicInit ==
  /\ RunInit /\ SegIdle
  /\ l_pc = "ready"
  /\ l_hull \in LogicHulls \cup {None}
  /\ l_rect \in LogicZones
  /\ l_vec \in Vectors
  /\ l_out = None /\ l_outT = None

\* calculate_logic(hull, rect)
CallLogic ==
  /\ l_pc = "ready"
  /\ l_out' = calculate_logic(l_hull, l_rect)
  /\ l_pc' = "called"
  /\ UNCHANGED <<l_hull, l_rect, l_vec, l_outT>>

\* calculate_logic on the hull and the zone origin moved by l_vec
CallTranslated ==
  /\ l_pc = "called"
  /\ l_outT' = calculate_logic(TranslateHull(l_hull, l_vec), TranslateRect(l_rect, l_vec))
  /\ l_pc' = "done"
  /\ UNCHANGED <<l_hull, l_rect, l_vec, l_out>>

LogicNext ==
  \/ (CallLogic /\ UNCHANGED <<runVars, segVars>>)
  \/ (CallTranslated /\ UNCHANGED <<runVars, segVars>>)

LogicSpec == LogicInit /\ [][LogicNext]_vars

\* --------------------------------------- process_frame as a pure function
SegInit ==
  /\ RunInit /\ LogicIdle
  /\ s_pc = "ready"
  /\ s_frame \in FramesWith(MaxContours)
  /\ s_hull = None

\* process_frame(frame)
Segment ==
  /\ s_pc = "ready"
  /\ s_hull' = process_frame(s_frame)
  /\ s_pc' = "done"
  /\ UNCHANGED s_frame

SegNext == Segment /\ UNCHANGED <<runVars, logicVars>>

SegSpec == SegInit /\ [][SegNext]_vars

\* ================================================================ claims
\* The clamp, the minimum and the largest area are restated here on their
\* own, apart from the operators that model the code.

\* p clamped to the interval [lo, hi].
ClampTo(p, lo, hi) == IF p < lo THEN lo ELSE IF p > hi THEN hi ELSE p

\* The clamp of vertex v = <<x, y>> to the rectangle [x, x+w] x [y, y+h].
ClampPoint(v, rect) ==
  <<ClampTo(v[1], rect[1], rect[1] + rect[3]), ClampTo(v[2], rect[2], rect[2] + rect[4])>>

\* Squared Euclidean distance between a vertex and its clamp.
Gap(v, rect) ==
  LET c == ClampPoint(v, rect)
  IN  BigAdd(Sq(v[1] - c[1]), Sq(v[2] - c[2]))

\* The minimum over every vertex of the hull.
TrueMin(hl, rect) ==
  LET gaps == {Gap(hl[i][1], rect) : i \in 1..Len(hl)}
  IN  CHOOSE d \in gaps : \A e \in gaps : BigLe(d, e)

\* The vertices (indices) that achieve the minimum, and the first of them.
MinIndices(hl, rect) == {i \in 1..Len(hl) : Gap(hl[i][1], rect) = TrueMin(hl, rect)}
FirstMinIndex(hl, rect) ==
  CHOOSE i \in MinIndices(hl, rect) : \A j \in MinIndices(hl, rect) : i <= j

\* Some vertex is nearer than the initial min_dist of 99999 (99999^2 = 9999800001).
WithinInitialMinDist(hl, rect) == BigLt(TrueMin(hl, rect), <<9999, 800001>>)

LogicCalled == l_pc \in {"called", "done"} /\ l_hull # None

\* C1: for every non-empty hull and zone, the state is DANGER when the
\* minimum hull-to-zone distance d is <= 10, WARNING when 10 < d < 150 and
\* SAFE when d >= 150 (squares: 100 and 22500); it is one of the three states.
C1_Buckets ==
  LogicCalled =>
    LET d == TrueMin(l_hull, l_rect)
    IN  /\ l_out.state \in {STATE_SAFE, STATE_WARNING, STATE_DANGER}
        /\ BigLe(d, <<0, 100>>) => l_out.state = STATE_DANGER
        /\ (BigLt(<<0, 100>>, d) /\ BigLt(d, <<0, 22500>>)) => l_out.state = STATE_WARNING
        /\ BigLe(<<0, 22500>>, d) => l_out.state = STATE_SAFE

\* C1 witness: a hull whose nearest vertex is at distance exactly 10 has been
\* classified DANGER.
C1_Witness ==
  /\ LogicCalled
  /\ TrueMin(l_hull, l_rect) = <<0, 100>>
  /\ l_out.state = STATE_DANGER

\* C2: for every non-empty hull and zone, the returned distance is the
\* minimum over every vertex of the distance between the vertex and its
\* clamp, the returned hand point is a vertex achieving it, and the returned
\* zone point is the clamp of the returned hand point.
C2_MinOverAllVertices ==
  LogicCalled =>
    /\ l_out.dist = TrueMin(l_hull, l_rect)
    /\ \E i \in MinIndices(l_hull, l_rect) : l_out.hand_pt = l_hull[i][1]
    /\ l_out.box_pt = ClampPoint(l_out.hand_pt, l_rect)

\* C2 restricted to hulls with a vertex nearer than 99999 to the zone.
C2_WithinInitialMinDist ==
  (LogicCalled /\ WithinInitialMinDist(l_hull, l_rect)) =>
    /\ l_out.dist = TrueMin(l_hull, l_rect)
    /\ \E i \in MinIndices(l_hull, l_rect) : l_out.hand_pt = l_hull[i][1]
    /\ l_out.box_pt = ClampPoint(l_out.hand_pt, l_rect)

\* What the code returns for a hull with no vertex nearer than 99999: the
\* initial values 99999, (0, 0), (0, 0) and SAFE.
C2_BeyondInitialMinDist ==
  (LogicCalled /\ ~WithinInitialMinDist(l_hull, l_rect)) =>
    /\ l_out.dist = <<9999, 800001>>
    /\ l_out.hand_pt = <<0, 0>> /\ l_out.box_pt = <<0, 0>>
    /\ l_out.state = STATE_SAFE

\* C9: translating every hull vertex and the zone origin by a vector v leaves
\* the state and the distance unchanged and moves both returned points by v.
C9_TranslationInvariant ==
  (l_pc = "done" /\ l_hull # None) =>
    /\ l_outT.state = l_out.state
    /\ l_outT.dist = l_out.dist
    /\ l_outT.hand_pt = <<l_out.hand_pt[1] + l_vec[1], l_out.hand_pt[2] + l_vec[2]>>
    /\ l_outT.box_pt = <<l_out.box_pt[1] + l_vec[1], l_out.box_pt[2] + l_vec[2]>>

\* C9 restricted to hulls with a vertex nearer than 99999 to the zone.
C9_WithinInitialMinDist ==
  (l_pc = "done" /\ l_hull # None /\ WithinInitialMinDist(l_hull, l_rect)) =>
    /\ l_outT.state = l_out.state
    /\ l_outT.dist = l_out.dist
    /\ l_outT.hand_pt = <<l_out.hand_pt[1] + l_vec[1], l_out.hand_pt[2] + l_vec[2]>>
    /\ l_outT.box_pt = <<l_out.box_pt[1] + l_vec[1], l_out.box_pt[2] + l_vec[2]>>

Reverse(sq) == [i \in 1..Len(sq) |-> sq[Len(sq) + 1 - i]]

\* C10: when several vertices achieve the minimum distance, the returned
\* points are those of the first of them in hull order, and putting another
\* of them first (here: reversing the hull) changes neither state nor distance.
C10_FirstTiedVertexWins ==
  (LogicCalled /\ Cardinality(MinIndices(l_hull, l_rect)) >= 2) =>
    /\ l_out.hand_pt = l_hull[FirstMinIndex(l_hull, l_rect)][1]
    /\ l_out.box_pt = ClampPoint(l_out.hand_pt, l_rect)
    /\ calculate_logic(Reverse(l_hull), l_rect).state = l_out.state
    /\ calculate_logic(Reverse(l_hull), l_rect).dist = l_out.dist

\* C10 restricted to hulls with a vertex nearer than 99999 to the zone.
C10_WithinInitialMinDist ==
  (/\ LogicCalled
   /\ Cardinality(MinIndices(l_hull, l_rect)) >= 2
   /\ WithinInitialMinDist(l_hull, l_rect)) =>
    /\ l_out.hand_pt = l_hull[FirstMinIndex(l_hull, l_rect)][1]
    /\ l_out.box_pt = ClampPoint(l_out.hand_pt, l_rect)
    /\ calculate_logic(Reverse(l_hull), l_rect).state = l_out.state
    /\ calculate_logic(Reverse(l_hull), l_rect).dist = l_out.dist

\* The loop of run() has stopped.
LoopExited == pc \in {"release", "destroy", "done"}

\* C3: with no hull, calculate_logic returns SAFE, distance 0 and both points
\* (0, 0) whatever the zone; so every iteration in which the segmenter finds
\* no hand reports and displays SAFE.
C3_NoHullIsSafe ==
  (n_classified > 0 /\ hull = None) =>
    /\ state = STATE_SAFE
    /\ dist = <<0, 0>>
    /\ hand_pt = <<0, 0>>
    /\ box_pt = <<0, 0>>
    /\ (n_shown = n_classified => shown.alert = STATE_SAFE /\ shown.line = None)

\* C3 witness: an iteration whose frame holds a contour that is too small
\* has been classified and displayed.
C3_Witness ==
  /\ pc = "waitkey"
  /\ Len(frame.contours) > 0
  /\ hull = None
  /\ state = STATE_SAFE

\* C4: the zone is unset until the first frame is processed, then holds
\* (floor(0.65 w), floor(0.25 h), 200, 200) of the first frame read, and no
\* later step changes it, whatever the size of later frames.
C4_ZoneFixedByFirstFrame ==
  /\ [](n_classified = 0 => danger_zone_rect = None)
  /\ [](n_classified > 0 =>
         danger_zone_rect = <<(first_dims[1] * 65) \div 100,
                              (first_dims[2] * 25) \div 100, 200, 200>>)
  /\ [][danger_zone_rect # None => danger_zone_rect' = danger_zone_rect]_vars

\* C4 witness: a later frame of another size has been processed.
C4_Witness ==
  /\ n_classified >= 2
  /\ pc = "show"
  /\ <<w, h>> # first_dims
  /\ danger_zone_rect # None

\* C6: the camera is released and the windows are destroyed at most once
\* each and only after the loop has stopped; when run() has finished, each
\* exactly once; the loop is left only for the release; and a failed read
\* leaves the loop without classifying or displaying anything.
C6_CleanupOnEveryExit ==
  /\ [](cap_released <= 1 /\ windows_destroyed <= 1)
  /\ []((cap_released > 0 \/ windows_destroyed > 0) => LoopExited)
  /\ [](windows_destroyed > 0 => cap_released = 1)
  /\ [](pc = "done" => cap_released = 1 /\ windows_destroyed = 1)
  /\ [][(~LoopExited /\ LoopExited') =>
          /\ pc' = "release"
          /\ cap_released' = 0 /\ windows_destroyed' = 0]_vars
  /\ [][(pc = "read" /\ LoopExited') =>
          /\ n_classified' = n_classified /\ n_shown' = n_shown
          /\ n_classified = n_read /\ n_shown = n_read]_vars
  /\ [][(pc = "release" => pc' = "destroy" /\ cap_released' = 1)
        /\ (pc = "destroy" => pc' = "done" /\ windows_destroyed' = 1)]_vars

\* C6 witness: run() has finished after the very first read failed.
C6_Witness ==
  /\ pc = "done"
  /\ n_read = 0 /\ n_classified = 0 /\ n_shown = 0
  /\ cap_released = 1 /\ windows_destroyed = 1

\* C7: a key read as ord('q') = 113 ends the loop, with the iteration's frame
\* already classified and displayed; any other key value sends the loop to the
\* next read; and once the loop has stopped no frame is read.
C7_OnlyQuitStopsLoop ==
  [][/\ pc = "waitkey" =>
          /\ key' = 113 =>
               /\ pc' = "release"
               /\ n_classified = n_read /\ n_shown = n_read
               /\ shown.alert = state /\ shown.outline = hull
          /\ key' # 113 => pc' = "read"
     /\ LoopExited => (LoopExited' /\ n_read' = n_read /\ frame' = frame)
    ]_vars

\* C7 witness: the loop was left by the quit key after a frame was displayed.
C7_Witness ==
  /\ pc = "release"
  /\ n_shown >= 1 /\ n_shown = n_read
  /\ key = 113

\* C8: the reported result has no memory: it is the classifier's value on
\* the iteration's hull and the zone, and it equals the result any earlier
\* iteration of the run reported for the same hull.
C8_NoMemoryAcrossFrames ==
  (n_classified > 0) =>
    /\ [state |-> state, dist |-> dist, hand_pt |-> hand_pt, box_pt |-> box_pt]
         = calculate_logic(hull, danger_zone_rect)
    /\ (snap # None /\ snap[1].hull = hull) =>
         /\ snap[1].state = state /\ snap[1].dist = dist
         /\ snap[1].hand_pt = hand_pt /\ snap[1].box_pt = box_pt

\* C8 witness: a hull recorded two or more iterations ago is classified SAFE
\* again right after an iteration that displayed DANGER.
C8_Witness ==
  /\ pc = "show"
  /\ snap # None
  /\ snap[1].at + 2 <= n_classified
  /\ hull # None
  /\ snap[1].hull = hull
  /\ state = STATE_SAFE
  /\ shown.alert = STATE_DANGER

\* Largest doubled area among the contours of a frame.
LargestArea2(fr) ==
  CHOOSE a \in {fr.contours[i].area2 : i \in 1..Len(fr.contours)} :
    \A i \in 1..Len(fr.contours) : fr.contours[i].area2 <= a

\* C5 as stated: no hull when there is no contour or the largest area is
\* below 3000; the hull of a largest contour when that area is 3000 or more.
C5_ThresholdInclusive ==
  (s_pc = "done") =>
    /\ Len(s_frame.contours) = 0 => s_hull = None
    /\ (Len(s_frame.contours) > 0 /\ LargestArea2(s_frame) < 6000) => s_hull = None
    /\ (Len(s_frame.contours) > 0 /\ LargestArea2(s_frame) >= 6000) =>
         \E i \in 1..Len(s_frame.contours) :
           /\ s_frame.contours[i].area2 = LargestArea2(s_frame)
           /\ s_hull = s_frame.contours[i].hull

\* C5 amended: no hull when there is no contour or the largest area is 3000
\* or less; the hull of the first largest contour when it exceeds 3000.
C5_ThresholdExclusive ==
  (s_pc = "done") =>
    /\ Len(s_frame.contours) = 0 => s_hull = None
    /\ (Len(s_frame.contours) > 0 /\ LargestArea2(s_frame) <= 6000) => s_hull = None
    /\ (Len(s_frame.contours) > 0 /\ LargestArea2(s_frame) > 6000) =>
         \E i \in 1..Len(s_frame.contours) :
           /\ s_frame.contours[i].area2 = LargestArea2(s_frame)
           /\ \A j \in 1..(i - 1) : s_frame.contours[j].area2 < LargestArea2(s_frame)
           /\ s_hull = s_frame.contours[i].hull

\* C5 witness: the largest contour has area exactly 3000 and no hull is returned.
C5_Witness ==
  /\ s_pc = "done"
  /\ Len(s_frame.contours) > 0
  /\ LargestArea2(s_frame) = 6000
  /\ s_hull = None

====
